---- MODULE Spec2Model ----
(***************************************************************************)
(* The conversation orchestration core of FassimoV3: handleUserMessage     *)
(* (the Flow Router), conductOnboardingInterview (the Interview Engine)    *)
(* and the mock task store.                                                *)
(*                                                                         *)
(* A string is modelled as the sequence of its pieces (a Text), so that    *)
(* string building, the " [OPTIONS: ...]" marker and JSON.stringify are    *)
(* computed rather than assumed.  A falsy string (undefined or "") is the  *)
(* empty Text.                                                             *)
(***************************************************************************)
EXTENDS Integers, Sequences, FiniteSets, TLC

VARIABLES
    currentFlow,       \* conversationState.currentFlow ("none" models null)
    history,           \* conversationState.history
    mockTaskDatabase,  \* the task flows' in-memory store
    response,          \* what the last handleUserMessage call returned
    call,              \* record of the last call: input, engine input/result
    interviewAdds,     \* task-store adds since the current interview began
    interviewDone,     \* the current interview has completed with its answers
                       \* (a prompt-following completion, no failing add)
    stale,             \* turns of history that predate the current interview
    offScript,         \* inputs so far that left the scripted path
    isLoading,         \* ChatInterface: a request is awaiting its response
    inflight           \* handleUserMessage calls suspended at an await

vars == <<currentFlow, history, mockTaskDatabase, response, call,
          interviewAdds, interviewDone, stale, offScript, isLoading, inflight>>

\* The state of the chat interface and of the calls it has in flight.
chatVars == <<isLoading, inflight>>

-----------------------------------------------------------------------------
(* Bounds of the model *)

MaxOffScript == 2
MaxClock == 0

-----------------------------------------------------------------------------
(* Trigger tokens and fixed texts *)

ONBOARDING_TRIGGER == <<"START_ONBOARDING_INTERVIEW">>
CREATE_PRODUCT_TRIGGER == <<"START_CREATE_PRODUCT">>
RESET_CONVERSATION_TRIGGER == <<"RESET_CONVERSATION">>
VIEW_TASKLIST_TRIGGER == <<"VIEW_TASKLIST">>

OPTIONS_OPEN == " [OPTIONS: "
OPTIONS_OPEN_TIGHT == " [OPTIONS:"
OPTIONS_CLOSE == "]"
COMMA == ","

QUESTIONS ==
    [ name |-> <<"What is your name?">>,
      goal |-> <<"What is your goal for the 30 day free trial?">>,
      channel |-> <<"What is your preferred channel of communication?">>,
      channelWithOptions |->
          <<"What is your preferred channel of communication?",
            OPTIONS_OPEN, "Chat", COMMA, "Email", COMMA, "Whatsapp", OPTIONS_CLOSE>>,
      stripe |-> <<"Do you have a Stripe account?">>,
      stripeWithOptions |->
          <<"Do you have a Stripe account?",
            OPTIONS_OPEN, "Yes", COMMA, "No", OPTIONS_CLOSE>> ]

TopLevelActions ==
    << [label |-> <<"Onboarding">>, trigger |-> ONBOARDING_TRIGGER],
       [label |-> <<"Create Product">>, trigger |-> CREATE_PRODUCT_TRIGGER] >>

ResetResponse ==
    [ responseText |-> <<"Conversation reset. Hello! What would you like to work on today?">>,
      actions |-> TopLevelActions ]

EngineFallbackQuestion ==
    <<"Sorry, I encountered an issue during the interview. Let's try starting the onboarding again.">>

MissingDataMsg ==
    <<"Onboarding seems complete, but I couldn't retrieve the final data. Let's stop here. You can try again using the 'Onboarding' button.">>

StuckMsg ==
    <<"Sorry, I got stuck during the onboarding process. Let's stop here. You can try starting again using the 'Onboarding' button.">>

CreateProductMsg ==
    <<"The 'Create Product' feature is not implemented yet. Please select another option.">>

SpamMsg == <<"This message appears to be spam and has been discarded.">>

NoTasksMsg == <<"You have no pending tasks.">>

TaskViewTail == <<"\nYou can view your tasks anytime using the Tasklist button.">>

finalErrorMsg(errorMessage) ==
    <<"Sorry, I encountered an internal error while processing your request. Please try again later. (Details: ">>
        \o errorMessage \o <<")">>

ReferenceErrorMessage == <<"onboardingData is not defined">>

-----------------------------------------------------------------------------
(* History and the options marker *)

Turn(sender, text) == [sender |-> sender, text |-> text]

\* Variant: the new turn is put in front of the earlier ones.
addMessageToHistory_Unshift(h, sender, text) ==
    IF text = RESET_CONVERSATION_TRIGGER \/ text = VIEW_TASKLIST_TRIGGER
    THEN h
    ELSE <<Turn(sender, text)>> \o h

\* addMessageToHistory: reset/view-tasks tokens are never recorded.
addMessageToHistory(h, sender, text) ==
    IF text = RESET_CONVERSATION_TRIGGER \/ text = VIEW_TASKLIST_TRIGGER
    THEN h
    ELSE Append(h, Turn(sender, text))

\* Position of the leftmost marker opening of a text that ends with the
\* marker's closing bracket; 0 when the trailing-marker pattern does not match.
MarkerStart(q) ==
    IF Len(q) >= 2 /\ q[Len(q)] = OPTIONS_CLOSE
       /\ \E i \in 1..(Len(q) - 1) : q[i] = OPTIONS_OPEN
    THEN CHOOSE i \in 1..(Len(q) - 1) :
            /\ q[i] = OPTIONS_OPEN
            /\ \A j \in 1..(i - 1) : q[j] # OPTIONS_OPEN
    ELSE 0

\* The same for the pattern of the replace, which does not ask for the space
\* after the colon.
StripStart(q) ==
    IF Len(q) >= 2 /\ q[Len(q)] = OPTIONS_CLOSE
       /\ \E i \in 1..(Len(q) - 1) : q[i] \in {OPTIONS_OPEN, OPTIONS_OPEN_TIGHT}
    THEN CHOOSE i \in 1..(Len(q) - 1) :
            /\ q[i] \in {OPTIONS_OPEN, OPTIONS_OPEN_TIGHT}
            /\ \A j \in 1..(i - 1) : q[j] \notin {OPTIONS_OPEN, OPTIONS_OPEN_TIGHT}
    ELSE 0

\* nextQuestion.replace(/ \[OPTIONS:.*?\]$/, '')
StripOptions(q) ==
    IF StripStart(q) = 0 THEN q ELSE SubSeq(q, 1, StripStart(q) - 1)

\* The text shown to the user: the marker is removed only when the match for
\* the buttons succeeded.
QuestionText(q) == IF MarkerStart(q) = 0 THEN q ELSE StripOptions(q)

\* optionsMatch[1].split(',').map(opt => opt.trim())
RECURSIVE SplitOptions(_)
SplitOptions(g) ==
    IF g = <<>> THEN <<>>
    ELSE IF Head(g) = COMMA THEN SplitOptions(Tail(g))
    ELSE <<Head(g)>> \o SplitOptions(Tail(g))

\* Variant: the marker is never parsed into buttons.
ParseActions_NoButtons(q) == <<>>

\* nextQuestion.match(/ \[OPTIONS: (.*?)\]$/) and the buttons built from it;
\* the empty sequence stands for actions: undefined.
ParseActions(q) ==
    IF MarkerStart(q) = 0 THEN <<>>
    ELSE LET options == SplitOptions(SubSeq(q, MarkerStart(q) + 1, Len(q) - 1))
         IN [i \in 1..Len(options) |->
                [label |-> <<options[i]>>, trigger |-> <<options[i]>>]]

-----------------------------------------------------------------------------
(* Interview Engine: the prompt, the flow's validation, the wrapper *)

NoData == [present |-> FALSE, name |-> <<>>, goal |-> <<>>, channel |-> <<>>,
           hasStripe |-> "undefined"]

OnboardingData(name, goal, channel, hasStripe) ==
    [present |-> TRUE, name |-> name, goal |-> goal, channel |-> channel,
     hasStripe |-> hasStripe]

ChannelChoices == {<<"Chat">>, <<"Email">>, <<"Whatsapp">>}
StripeChoices == {<<"Yes">>, <<"No">>}

\* The text of question k as the router records it in history.
QuestionAsked(k) ==
    CASE k = 1 -> QUESTIONS.name
      [] k = 2 -> QUESTIONS.goal
      [] k = 3 -> QUESTIONS.channel
      [] k = 4 -> QUESTIONS.stripe

\* The text the prompt tells the model to ask for question k.
QuestionToAsk(k) ==
    CASE k = 1 -> QUESTIONS.name
      [] k = 2 -> QUESTIONS.goal
      [] k = 3 -> QUESTIONS.channelWithOptions
      [] k = 4 -> QUESTIONS.stripeWithOptions

\* Variant: any non-empty text answers the constrained questions too.
ValidAnswer_AnyText(k, text) == text # <<>> /\ text # <<"">>

ValidAnswer(k, text) ==
    CASE k \in {1, 2} -> text # <<>> /\ text # <<"">>
      [] k = 3 -> text \in ChannelChoices
      [] k = 4 -> text \in StripeChoices

IsAnswerTurn(t) == t.sender \in {"user", "action"}

\* Index of the first user/action turn after position i, 0 if none.
RECURSIVE FirstAnswerAfter(_, _)
FirstAnswerAfter(h, i) ==
    IF i >= Len(h) THEN 0
    ELSE IF IsAnswerTurn(h[i + 1]) THEN i + 1
    ELSE FirstAnswerAfter(h, i + 1)

\* Index of the turn that validly answers question k, asked by the AI after
\* position p ("asked by the AI ... and answered by the user/action"); 0 if none.
RECURSIVE AnsweredAt(_, _, _)
AnsweredAt(h, k, p) ==
    IF p >= Len(h) THEN 0
    ELSE LET i == p + 1
             j == FirstAnswerAfter(h, i)
         IN IF /\ h[i].sender = "ai"
               /\ h[i].text = QuestionAsked(k)
               /\ j > 0
               /\ ValidAnswer(k, h[j].text)
            THEN j
            ELSE AnsweredAt(h, k, i)

\* Indices of the answers to questions 1..4 (0 from the first unanswered on).
AnswerIndices(h) ==
    LET a1 == AnsweredAt(h, 1, 0)
        a2 == IF a1 = 0 THEN 0 ELSE AnsweredAt(h, 2, a1)
        a3 == IF a2 = 0 THEN 0 ELSE AnsweredAt(h, 3, a2)
        a4 == IF a3 = 0 THEN 0 ELSE AnsweredAt(h, 4, a3)
    IN <<a1, a2, a3, a4>>

\* The first question of the sequence not yet answered; 5 when all four are.
PendingQuestion(h) ==
    LET a == AnswerIndices(h)
    IN IF \E k \in 1..4 : a[k] = 0
       THEN CHOOSE k \in 1..4 : a[k] = 0 /\ \A l \in 1..(k - 1) : a[l] # 0
       ELSE 5

LastIndexOf(h, P(_)) ==
    IF \E i \in 1..Len(h) : P(h[i])
    THEN CHOOSE i \in 1..Len(h) : P(h[i]) /\ \A j \in (i + 1)..Len(h) : ~P(h[j])
    ELSE 0

IsAiTurn(t) == t.sender = "ai"

StartTurn == Turn("system", <<"Starting onboarding interview.">>)

\* Variant: the prompt never finds the Stripe question just answered.
StripeJustAnswered_Never(h) == FALSE

\* Variant: a Stripe answer anywhere in the history counts as just given.
StripeJustAnswered_Ever(h) ==
    \E i \in 1..(Len(h) - 1) :
        /\ h[i] = [sender |-> "ai", text |-> QUESTIONS.stripe]
        /\ h[i + 1].text \in StripeChoices

\* Step 8b of the prompt: the last AI message asked the Stripe question and
\* the latest user/action response is Yes or No.
StripeJustAnswered(h) ==
    LET la == LastIndexOf(h, IsAiTurn)
        lu == LastIndexOf(h, IsAnswerTurn)
    IN /\ la > 0
       /\ h[la].text = QUESTIONS.stripe
       /\ lu > la
       /\ h[lu].text \in StripeChoices

BoolText(b) == IF b THEN "true" ELSE "false"

\* What a model that follows onboardingInterviewPrompt returns for history h.
onboardingInterviewPrompt(h) ==
    LET k == PendingQuestion(h)
        a == AnswerIndices(h)
    IN IF k <= 4
       THEN [isNull |-> FALSE, nextQuestion |-> QuestionToAsk(k), isComplete |-> FALSE,
             onboardingData |-> NoData, answeredStripe |-> "false"]
       ELSE [isNull |-> FALSE, nextQuestion |-> <<>>, isComplete |-> TRUE,
             onboardingData |->
                 OnboardingData(h[a[1]].text, h[a[2]].text, h[a[3]].text,
                                BoolText(h[a[4]].text = <<"Yes">>)),
             answeredStripe |-> BoolText(StripeJustAnswered(h))]

\* Completions that break the output contract (no output at all, complete
\* without data, not complete without a question).
FaultyCompletions ==
    { [isNull |-> TRUE, nextQuestion |-> <<>>, isComplete |-> FALSE,
       onboardingData |-> NoData, answeredStripe |-> "undefined"],
      [isNull |-> FALSE, nextQuestion |-> <<>>, isComplete |-> TRUE,
       onboardingData |-> NoData, answeredStripe |-> "undefined"],
      [isNull |-> FALSE, nextQuestion |-> <<>>, isComplete |-> FALSE,
       onboardingData |-> NoData, answeredStripe |-> "undefined"] }

\* Completions that claim completion with answers that were never given: a
\* channel outside the enum, and a data object with no answer in it.
MalformedCompletions ==
    { [isNull |-> FALSE, nextQuestion |-> <<>>, isComplete |-> TRUE,
       onboardingData |-> OnboardingData(<<"Alice">>, <<"grow my business">>,
                                         <<"SMS">>, "true"),
       answeredStripe |-> "true"],
      [isNull |-> FALSE, nextQuestion |-> <<>>, isComplete |-> TRUE,
       onboardingData |-> OnboardingData(<<>>, <<>>, <<>>, "undefined"),
       answeredStripe |-> "undefined"] }

\* The fixed completions that are not the one the prompt asks for.
OffPromptCompletions == FaultyCompletions \cup MalformedCompletions

TightMarker(q) ==
    [i \in 1..Len(q) |-> IF q[i] = OPTIONS_OPEN THEN OPTIONS_OPEN_TIGHT ELSE q[i]]

\* The prompt's question with its marker written without the space after the
\* colon, where the question to ask has a marker.
SlippedCompletions(h) ==
    {[p EXCEPT !.nextQuestion = TightMarker(p.nextQuestion)] :
        p \in {q \in {onboardingInterviewPrompt(h)} : MarkerStart(q.nextQuestion) # 0}}

\* A completion that is not the one the prompt asks for.
IsOffPrompt(output) ==
    \/ output \in OffPromptCompletions
    \/ \E i \in 1..Len(output.nextQuestion) : output.nextQuestion[i] = OPTIONS_OPEN_TIGHT

\* The model-completion boundary: the prompt's answer or a faulty completion.
ModelCompletions(h) ==
    {onboardingInterviewPrompt(h)} \cup OffPromptCompletions \cup SlippedCompletions(h)

\* ConductOnboardingInterviewOutputSchema, declared as the flow's outputSchema:
\* every field of onboardingData is optional, channel is one of the enum.
OutputSchemaOk(output) ==
    output.onboardingData.present =>
        output.onboardingData.channel \in ChannelChoices \cup {<<>>}

\* conductOnboardingInterviewFlow: validation and clean-up of the raw output.
conductOnboardingInterviewFlow(output) ==
    IF output.isNull THEN [threw |-> TRUE, value |-> output]
    ELSE IF output.isComplete
    THEN IF ~output.onboardingData.present
         THEN [threw |-> TRUE, value |-> output]
         ELSE IF /\ output.answeredStripe = "true"
                 /\ output.onboardingData.hasStripe \notin {"true", "false"}
         THEN [threw |-> TRUE, value |-> output]
         ELSE IF ~OutputSchemaOk(output)
         THEN [threw |-> TRUE, value |-> output]
         ELSE [threw |-> FALSE,
               value |-> [output EXCEPT
                   !.nextQuestion = <<>>,
                   !.answeredStripe = IF @ = "true" THEN "true" ELSE "false"]]
    ELSE IF output.nextQuestion = <<>> \/ output.nextQuestion = <<"">>
         THEN [threw |-> TRUE, value |-> output]
         ELSE [threw |-> FALSE,
               value |-> [output EXCEPT !.onboardingData = NoData,
                                        !.answeredStripe = "false"]]

\* Variant: the fallback result asks to retry instead of ending the interview.
conductOnboardingInterview_Retry(output) ==
    LET r == conductOnboardingInterviewFlow(output)
    IN IF r.threw
       THEN [isNull |-> FALSE, nextQuestion |-> EngineFallbackQuestion,
             isComplete |-> FALSE, onboardingData |-> NoData,
             answeredStripe |-> "false"]
       ELSE r.value

\* conductOnboardingInterview: a failure of the flow becomes the fallback result.
conductOnboardingInterview(output) ==
    LET r == conductOnboardingInterviewFlow(output)
    IN IF r.threw
       THEN [isNull |-> FALSE, nextQuestion |-> EngineFallbackQuestion,
             isComplete |-> TRUE, onboardingData |-> NoData,
             answeredStripe |-> "false"]
       ELSE r.value

-----------------------------------------------------------------------------
(* Task store and task creation *)

DueDays == 5

CreateStripeTask == <<"Create a Stripe account for payment processing.">>
ConnectStripeTask == <<"Connect your Stripe account in Settings > Payments.">>

\* Math.random().toString(36).substring(7): a short suffix, possibly empty.
RandomSuffixes == {<<>>, <<"k3x9">>}

\* mockTaskId: task_${Date.now()}_${random suffix}
mockTaskId(now, rnd) == <<"task_", ToString(now), "_">> \o rnd

\* Variant: a new task goes to the front of the store.
addTask_Front(db, input, now, rnd) ==
    <<[id |-> mockTaskId(now, rnd),
       description |-> input.description,
       priority |-> input.priority,
       dueDate |-> input.dueDate,
       completed |-> FALSE]>> \o db

\* addTaskFlow + internalAddTask
addTask(db, input, now, rnd) ==
    Append(db, [id |-> mockTaskId(now, rnd),
                description |-> input.description,
                priority |-> input.priority,
                dueDate |-> input.dueDate,
                completed |-> FALSE])

IsPending(task) == ~task.completed

\* Variant: completed tasks are left out of the list.
getTasks_PendingOnly(db) == SelectSeq(db, IsPending)

\* getTasksFlow: a copy of the store, in insertion order.
getTasks(db) == db

StoreIds(db) == {db[i].id : i \in 1..Len(db)}

\* mockTaskDatabase.findIndex(t => t.id === taskId); 0 stands for -1.
FindIndex(db, taskId) ==
    IF taskId \in StoreIds(db)
    THEN CHOOSE i \in 1..Len(db) :
            db[i].id = taskId /\ \A j \in 1..(i - 1) : db[j].id # taskId
    ELSE 0

\* { ...task, ...updates }: a field of updates is << >> when absent and
\* <<value>> when present.
MergeTask(task, updates) ==
    [id |-> task.id,
     description |-> IF updates.description # <<>>
                     THEN updates.description[1] ELSE task.description,
     priority |-> IF updates.priority # <<>>
                  THEN updates.priority[1] ELSE task.priority,
     dueDate |-> IF updates.dueDate # <<>>
                 THEN updates.dueDate[1] ELSE task.dueDate,
     completed |-> IF updates.completed # <<>>
                   THEN updates.completed[1] ELSE task.completed]

\* Variant: an unknown id makes the update land on the last task.
internalUpdateTask_Last(db, taskId, updates) ==
    LET found == FindIndex(db, taskId)
        taskIndex == IF found = 0 THEN Len(db) ELSE found
    IN IF taskIndex > 0
       THEN [success |-> found > 0,
             db |-> [db EXCEPT ![taskIndex] = MergeTask(db[taskIndex], updates)]]
       ELSE [success |-> FALSE, db |-> db]

\* internalUpdateTask
internalUpdateTask(db, taskId, updates) ==
    LET taskIndex == FindIndex(db, taskId)
    IN IF taskIndex > 0
       THEN [success |-> TRUE,
             db |-> [db EXCEPT ![taskIndex] = MergeTask(db[taskIndex], updates)]]
       ELSE [success |-> FALSE, db |-> db]

\* The due date of an update input: not given, null (clear it) or a date.
NoDue == [given |-> FALSE, isNull |-> FALSE, value |-> <<>>]
NullDue == [given |-> TRUE, isNull |-> TRUE, value |-> <<>>]

\* Variant: a null due date is taken as no due date given.
updateTask_IgnoresNull(db, input) ==
    LET updatesToApply ==
            [description |-> input.updates.description,
             priority |-> input.updates.priority,
             dueDate |-> IF input.updates.dueDate.given /\ ~input.updates.dueDate.isNull
                         THEN <<input.updates.dueDate.value>>
                         ELSE <<>>,
             completed |-> input.updates.completed]
        r == internalUpdateTask(db, input.taskId, updatesToApply)
    IN [success |-> r.success,
        message |-> IF r.success
                    THEN <<"Task ">> \o input.taskId \o <<" updated successfully.">>
                    ELSE <<"Task with ID ">> \o input.taskId \o <<" not found.">>,
        db |-> r.db]

\* updateTaskFlow: copies the fields that were given, a null due date as
\* undefined, and applies them.
updateTask(db, input) ==
    LET updatesToApply ==
            [description |-> input.updates.description,
             priority |-> input.updates.priority,
             dueDate |-> IF input.updates.dueDate.given
                         THEN <<IF input.updates.dueDate.isNull
                                THEN <<>> ELSE input.updates.dueDate.value>>
                         ELSE <<>>,
             completed |-> input.updates.completed]
        r == internalUpdateTask(db, input.taskId, updatesToApply)
    IN [success |-> r.success,
        message |-> IF r.success
                    THEN <<"Task ">> \o input.taskId \o <<" updated successfully.">>
                    ELSE <<"Task with ID ">> \o input.taskId \o <<" not found.">>,
        db |-> r.db]

\* Variant: the undated medium task for the answer false, the dated high one
\* for every other answer.
createOnboardingTask_Swapped(db, onboardingData, now, rnd) ==
    IF onboardingData.hasStripe = "false"
    THEN addTask(db, [description |-> CreateStripeTask, priority |-> "medium",
                      dueDate |-> <<>>], now, rnd)
    ELSE addTask(db, [description |-> ConnectStripeTask, priority |-> "high",
                      dueDate |-> <<now + DueDays>>], now, rnd)

\* createOnboardingTask; a due date is <<day>>, no due date is << >>.
createOnboardingTask(db, onboardingData, now, rnd) ==
    IF onboardingData.hasStripe = "false"
    THEN addTask(db, [description |-> CreateStripeTask, priority |-> "high",
                      dueDate |-> <<now + DueDays>>], now, rnd)
    ELSE IF onboardingData.hasStripe = "true"
    THEN addTask(db, [description |-> ConnectStripeTask, priority |-> "medium",
                      dueDate |-> <<>>], now, rnd)
    ELSE db

\* The try/catch around the add in createOnboardingTask: a failure of addTask
\* is logged and the function returns normally, with nothing added.
createOnboardingTaskTry(db, onboardingData, now, rnd, addThrows) ==
    IF addThrows THEN db ELSE createOnboardingTask(db, onboardingData, now, rnd)

FormatTask(task, index) ==
    <<ToString(index), ". ">> \o task.description
        \o <<"\n   - Priority: ", task.priority>>
        \o (IF task.dueDate # <<>>
            THEN <<"\n   - Due: ", ToString(task.dueDate[1])>> ELSE <<>>)
        \o <<"\n   - Status: ", IF task.completed THEN "Completed" ELSE "Pending">>

RECURSIVE FormatTasks(_, _)
FormatTasks(tasks, index) ==
    IF index > Len(tasks) THEN <<>>
    ELSE FormatTask(tasks[index], index) \o FormatTasks(tasks, index + 1)

\* Variant: only the first task is listed.
fetchAndFormatTasks_FirstOnly(db) ==
    LET tasks == getTasks(db)
    IN IF Len(tasks) = 0 THEN NoTasksMsg
       ELSE <<"Here is your current task list:\n\n">> \o FormatTask(tasks[1], 1)

\* fetchAndFormatTasks over getTasks
fetchAndFormatTasks(db) ==
    LET tasks == getTasks(db)
    IN IF Len(tasks) = 0 THEN NoTasksMsg
       ELSE <<"Here is your current task list:\n\n">> \o FormatTasks(tasks, 1)

-----------------------------------------------------------------------------
(* Flow Router: handleUserMessage *)

NoResult == [isNull |-> TRUE, nextQuestion |-> <<>>, isComplete |-> FALSE,
             onboardingData |-> NoData, answeredStripe |-> "undefined"]

\* No output of the praise prompt.
NoPraise == [isNull |-> TRUE, hasText |-> FALSE, praisedMessage |-> <<>>]

Reply(text, actions) == [responseText |-> text, actions |-> actions]

\* Outcome of one call: the new session state, store and response, plus what
\* was passed to and returned by the Interview Engine.
Outcome(flow, h, db, resp, engineCalled, engineIn, result) ==
    [flow |-> flow, hist |-> h, db |-> db, resp |-> resp,
     engineCalled |-> engineCalled, engineIn |-> engineIn, result |-> result,
     stages |-> <<>>, stage |-> "none", threw |-> FALSE,
           praiseOutput |-> NoPraise, completion |-> NoResult,
           addFailed |-> FALSE]

\* Variant: only the two start triggers are tagged action.
senderType_TriggersOnly(message) ==
    IF message = ONBOARDING_TRIGGER \/ message = CREATE_PRODUCT_TRIGGER
    THEN "action" ELSE "user"

senderType(message) ==
    IF \/ message = ONBOARDING_TRIGGER
       \/ message = CREATE_PRODUCT_TRIGGER
       \/ message \in StripeChoices
       \/ message \in ChannelChoices
    THEN "action" ELSE "user"

\* Variant: every input is recorded.
shouldAddToHistory_Always(message, flow) == TRUE

\* Variant: a start trigger is never recorded.
shouldAddToHistory_NoTriggers(message, flow) ==
    message # ONBOARDING_TRIGGER /\ message # CREATE_PRODUCT_TRIGGER

shouldAddToHistory(message, flow) ==
    /\ ~(message = ONBOARDING_TRIGGER /\ flow # "onboarding")
    /\ ~(message = CREATE_PRODUCT_TRIGGER /\ flow # "create_product")

\* JSON.stringify(onboardingData, null, 2): undefined fields are left out.
JsonStringify(data) ==
    <<"{">>
      \o (IF data.name # <<>> THEN <<"name: ">> \o data.name ELSE <<>>)
      \o (IF data.goal # <<>> THEN <<"goal: ">> \o data.goal ELSE <<>>)
      \o (IF data.channel # <<>> THEN <<"channel: ">> \o data.channel ELSE <<>>)
      \o (IF data.hasStripe # "undefined"
          THEN <<"hasStripe: ", data.hasStripe>> ELSE <<>>)
      \o <<"}">>

CreateNote == <<"\n\nA task has been added to your list to create a Stripe account.">>
ConnectNote == <<"\n\nA task has been added to your list to connect your Stripe account.">>

\* The task note of the completion message.  With answeredStripe true the
\* code reads onboardingData.hasStripe, and no variable `onboardingData`
\* is in scope of handleUserMessage: evaluating it throws a ReferenceError.
TaskNote(result) ==
    IF result.answeredStripe = "true"
    THEN [threw |-> TRUE, note |-> <<>>]
    ELSE [threw |-> FALSE, note |-> <<>>]

CompletionMessage(data, note) ==
    <<"Onboarding complete! Here's the collected information:", "json">>
        \o JsonStringify(data) \o <<"/json">> \o note \o TaskViewTail

\* The top-level catch block.
\* Variant: the catch block answers without the top-level options.
TopLevelCatch_NoActions(h, db, errorMessage, engineCalled, engineIn, result) ==
    [Outcome("none", addMessageToHistory(h, "ai", finalErrorMsg(errorMessage)), db,
             Reply(finalErrorMsg(errorMessage), <<>>),
             engineCalled, engineIn, result)
        EXCEPT !.threw = TRUE]

\* Variant: a failure after the engine ran leaves the interview active.
TopLevelCatch_KeepsInterview(h, db, errorMessage, engineCalled, engineIn, result) ==
    [Outcome(IF engineCalled THEN "onboarding" ELSE "none",
             addMessageToHistory(h, "ai", finalErrorMsg(errorMessage)), db,
             Reply(finalErrorMsg(errorMessage), TopLevelActions),
             engineCalled, engineIn, result)
        EXCEPT !.threw = TRUE]

TopLevelCatch(h, db, errorMessage, engineCalled, engineIn, result) ==
    [Outcome("none", addMessageToHistory(h, "ai", finalErrorMsg(errorMessage)), db,
             Reply(finalErrorMsg(errorMessage), TopLevelActions),
             engineCalled, engineIn, result)
        EXCEPT !.threw = TRUE]

\* case 'onboarding': h is the history passed to the engine, output the raw
\* model completion for it, addThrows whether a call of addTask fails.
OnboardingCase(h, db, output, now, rnd, addThrows) ==
    LET result == conductOnboardingInterview(output)
        h2 == IF result.nextQuestion # <<>>
              THEN addMessageToHistory(h, "ai", StripOptions(result.nextQuestion))
              ELSE h
        data == result.onboardingData
        db2 == IF result.answeredStripe = "true"
               THEN createOnboardingTaskTry(db, data, now, rnd, addThrows) ELSE db
        addFailed == /\ addThrows
                     /\ result.isComplete
                     /\ data.present
                     /\ result.answeredStripe = "true"
                     /\ data.hasStripe \in {"true", "false"}
        note == TaskNote(result)
        finalMessage == CompletionMessage(data, note.note)
        o == IF result.isComplete
             THEN IF data.present
                  THEN IF note.threw
                       THEN TopLevelCatch(h2, db2, ReferenceErrorMessage, TRUE, h, result)
                       ELSE Outcome("none", addMessageToHistory(h2, "ai", finalMessage),
                                    db2, Reply(finalMessage, <<>>), TRUE, h, result)
                  ELSE Outcome("none", addMessageToHistory(h2, "ai", MissingDataMsg), db,
                               Reply(MissingDataMsg, <<>>), TRUE, h, result)
             ELSE IF result.nextQuestion # <<>>
             THEN Outcome("onboarding", h2, db,
                          Reply(QuestionText(result.nextQuestion),
                                ParseActions(result.nextQuestion)),
                          TRUE, h, result)
             ELSE Outcome("none", addMessageToHistory(h2, "ai", StuckMsg), db,
                          Reply(StuckMsg, <<>>), TRUE, h, result)
    IN [o EXCEPT !.completion = output, !.addFailed = addFailed]

\* Variant: the placeholder flow stays active.
CreateProductCase_StaysActive(h, db) ==
    Outcome("create_product", addMessageToHistory(h, "ai", CreateProductMsg), db,
            Reply(CreateProductMsg, <<TopLevelActions[1]>>), FALSE, <<>>, NoResult)

\* case 'create_product'
CreateProductCase(h, db) ==
    Outcome("none", addMessageToHistory(h, "ai", CreateProductMsg), db,
            Reply(CreateProductMsg, <<TopLevelActions[1]>>), FALSE, <<>>, NoResult)

PraisedMessage(message) ==
    <<"!!!THIS IS AMAZING!!!">> \o message \o <<"!!!THIS IS AMAZING!!!">>

PraiseErrorMsg == <<"Sorry, the Praise Agent couldn't process the message correctly.">>

\* What praiseAgentPrompt can hand back: the praised message, no output at
\* all, or an output without a string praisedMessage.
PraiseCompletions(message) ==
    { [isNull |-> FALSE, hasText |-> TRUE, praisedMessage |-> PraisedMessage(message)],
      NoPraise,
      [isNull |-> FALSE, hasText |-> FALSE, praisedMessage |-> <<>>] }

\* praiseAgentFlow: checks the output and rethrows what it throws.
praiseAgentFlow(output) ==
    IF output.isNull
    THEN [threw |-> TRUE, value |-> output,
          error |-> <<"Error in praiseAgentFlow calling prompt: ",
                      "Praise Agent prompt did not return an output.">>]
    ELSE IF ~output.hasText
    THEN [threw |-> TRUE, value |-> output,
          error |-> <<"Error in praiseAgentFlow calling prompt: ",
                      "Praise Agent prompt returned invalid output structure.">>]
    ELSE [threw |-> FALSE, value |-> output, error |-> <<>>]

\* praiseAgent: rethrows a failure of the flow with its own prefix.
praiseAgent(output) ==
    LET r == praiseAgentFlow(output)
    IN IF r.threw THEN [r EXCEPT !.error = <<"Praise Agent failed: ">> \o r.error]
       ELSE r

\* How parseUserMessage and triageUserMessage end: either may throw, triage
\* may report spam.
DefaultOutcomes == {"parseThrows", "triageThrows", "spam", "clean"}

\* Variant: a spam verdict is ignored.
isSpam_Never(stage) == FALSE

\* triageResult.isSpam
isSpam(stage) == stage = "spam"

\* default: parse, triage, praise; stage is how parse and triage end,
\* praiseOutput what the praise prompt hands back.
DefaultCase(h, db, message, stage, praiseOutput) ==
    LET praiseResult == praiseAgent(praiseOutput)
        o == IF stage = "parseThrows"
             THEN [TopLevelCatch(h, db, <<"parse failed">>, FALSE, <<>>, NoResult)
                      EXCEPT !.stages = <<"parse">>]
             ELSE IF stage = "triageThrows"
             THEN [TopLevelCatch(h, db, <<"triage failed">>, FALSE, <<>>, NoResult)
                      EXCEPT !.stages = <<"parse", "triage">>]
             ELSE IF isSpam(stage)
             THEN [Outcome("none", addMessageToHistory(h, "ai", SpamMsg), db,
                           Reply(SpamMsg, <<>>), FALSE, <<>>, NoResult)
                      EXCEPT !.stages = <<"parse", "triage">>]
             ELSE [(IF praiseResult.threw
                    THEN TopLevelCatch(h, db, praiseResult.error, FALSE, <<>>, NoResult)
                    ELSE IF praiseResult.value.isNull \/ ~praiseResult.value.hasText
                    THEN Outcome("none", addMessageToHistory(h, "ai", PraiseErrorMsg), db,
                                 Reply(PraiseErrorMsg, <<>>), FALSE, <<>>, NoResult)
                    ELSE Outcome("none",
                                 addMessageToHistory(h, "ai",
                                                     praiseResult.value.praisedMessage),
                                 db, Reply(praiseResult.value.praisedMessage, <<>>),
                                 FALSE, <<>>, NoResult))
                      EXCEPT !.stages = <<"parse", "triage", "praise">>,
                             !.praiseOutput = praiseOutput]
    IN [o EXCEPT !.stage = stage]

-----------------------------------------------------------------------------
(* Inputs of the model *)

FreeTexts == {<<"Alice">>, <<"grow my business">>, <<"yes">>}

Messages ==
    {RESET_CONVERSATION_TRIGGER, VIEW_TASKLIST_TRIGGER, ONBOARDING_TRIGGER,
     CREATE_PRODUCT_TRIGGER} \cup FreeTexts \cup ChannelChoices \cup StripeChoices

Clock == 0..MaxClock

\* The scripted path: start the interview in a fresh session, then answer each
\* pending question.
ScriptedAnswers(k) ==
    CASE k = 1 -> {<<"Alice">>}
      [] k = 2 -> {<<"grow my business">>}
      [] k = 3 -> {<<"Email">>}
      [] k = 4 -> StripeChoices
      [] OTHER -> {}

OnScript(message, output) ==
    /\ ~IsOffPrompt(output)
    /\ \/ currentFlow = "none" /\ message = ONBOARDING_TRIGGER /\ history = <<>>
       \/ currentFlow = "onboarding" /\ message \in ScriptedAnswers(PendingQuestion(history))

Cost(message, output) == IF OnScript(message, output) THEN 0 ELSE 1

\* addTask is called, and so may fail, only on a completion that reports the
\* Stripe question as just answered.
AddFailures(output) ==
    IF output.isComplete /\ output.answeredStripe = "true"
    THEN BOOLEAN ELSE {FALSE}

\* Date.now() and Math.random() are read by addTask alone.
TaskClock(output) ==
    IF output.isComplete /\ output.answeredStripe = "true" THEN Clock ELSE {0}

TaskSuffixes(output) ==
    IF output.isComplete /\ output.answeredStripe = "true"
    THEN RandomSuffixes ELSE {<<>>}

\* A failing add of the task store is one more step off the scripted path.
AddCost(addThrows) == IF addThrows THEN 1 ELSE 0

\* A default-pipeline stage that fails, or a message found to be spam, is one
\* more step off the scripted path.
StageCost(message, stage, praiseOutput) ==
    IF stage = "clean" /\ praiseOutput.praisedMessage = PraisedMessage(message)
    THEN 0 ELSE 1

-----------------------------------------------------------------------------
(* State machine *)

NoCall == [message |-> <<>>, flowBefore |-> "none", engineCalled |-> FALSE,
           engineIn |-> <<>>, result |-> NoResult, fault |-> FALSE, added |-> 0,
           pendingBefore |-> 0, lenBefore |-> 0, now |-> 0,
           stages |-> <<>>, stage |-> "none", threw |-> FALSE,
           praiseOutput |-> NoPraise, completion |-> NoResult,
           addFailed |-> FALSE]

Init ==
    /\ currentFlow = "none"
    /\ history = <<>>
    /\ mockTaskDatabase = <<>>
    /\ response = Reply(<<>>, <<>>)
    /\ call = NoCall
    /\ interviewAdds = 0
    /\ interviewDone = FALSE
    /\ stale = 0
    /\ offScript = 0
    /\ isLoading = FALSE
    /\ inflight = <<>>

\* Variant: reset forgets the history and keeps the active flow.
resetConversationState_KeepsFlow == [currentFlow |-> currentFlow, history |-> <<>>]

\* resetConversationState
resetConversationState == [currentFlow |-> "none", history |-> <<>>]

\* Variant: a new interview keeps the earlier history.
ClearHistory_Keep(h) == h

\* conversationState.history = [] when a new interview starts
ClearHistory(h) == <<>>

\* Variant: a trigger in the input takes precedence over the active flow.
activeFlow_TriggerFirst(message, flow) ==
    IF message = ONBOARDING_TRIGGER THEN "onboarding"
    ELSE IF message = CREATE_PRODUCT_TRIGGER THEN "create_product"
    ELSE flow

\* "Determine Flow": an active flow takes precedence over a trigger in the input.
activeFlow(message, flow) ==
    IF flow # "none" THEN flow
    ELSE IF message = ONBOARDING_TRIGGER THEN "onboarding"
    ELSE IF message = CREATE_PRODUCT_TRIGGER THEN "create_product"
    ELSE "none"

\* Record the outcome o of handling message; starting says whether the call
\* began a new interview, now is the clock value the call read.
Apply(message, o, starting, fault, now, cost) ==
    LET added == Len(o.db) - Len(mockTaskDatabase)
        dated == added > 0 /\ o.db[Len(o.db)].dueDate # <<>>
    IN
    /\ offScript + cost <= MaxOffScript
    /\ currentFlow' = o.flow
    /\ history' = o.hist
    /\ mockTaskDatabase' = o.db
    /\ response' = o.resp
    /\ call' = [message |-> message, flowBefore |-> currentFlow,
                engineCalled |-> o.engineCalled, engineIn |-> o.engineIn,
                result |-> o.result, fault |-> fault, added |-> added,
                pendingBefore |-> IF currentFlow = "onboarding"
                                  THEN PendingQuestion(history) ELSE 0,
                lenBefore |-> IF starting THEN Len(history) ELSE 0,
                now |-> IF dated THEN now ELSE 0,
                stages |-> o.stages, stage |-> o.stage, threw |-> o.threw,
                praiseOutput |-> o.praiseOutput, completion |-> o.completion,
                addFailed |-> o.addFailed]
    /\ interviewAdds' = (IF starting THEN 0 ELSE interviewAdds) + added
    /\ interviewDone' = IF o.engineCalled
                        THEN /\ o.result.isComplete
                             /\ o.result.onboardingData.present
                             /\ ~fault
                             /\ ~o.addFailed
                        ELSE interviewDone
    /\ offScript' = offScript + cost
    /\ UNCHANGED chatVars

\* if (message === RESET_CONVERSATION_TRIGGER)
HandleReset(message) ==
    /\ message = RESET_CONVERSATION_TRIGGER
    /\ Apply(message,
             Outcome(resetConversationState.currentFlow, resetConversationState.history,
                     mockTaskDatabase, ResetResponse, FALSE, <<>>, NoResult),
             FALSE, FALSE, 0, Cost(message, NoResult))
    /\ stale' = 0

\* Variant: viewing the task list ends the active flow.
FlowAfterViewTasks_Ends(flow) == "none"

\* The view-tasks block leaves conversationState.currentFlow as it is.
FlowAfterViewTasks(flow) == flow

\* if (message === VIEW_TASKLIST_TRIGGER)
HandleViewTasks(message) ==
    /\ message # RESET_CONVERSATION_TRIGGER
    /\ message = VIEW_TASKLIST_TRIGGER
    /\ LET taskListText == fetchAndFormatTasks(mockTaskDatabase)
       IN Apply(message,
                Outcome(FlowAfterViewTasks(currentFlow),
                        addMessageToHistory(history, "ai", taskListText),
                        mockTaskDatabase, Reply(taskListText, <<>>), FALSE, <<>>, NoResult),
                FALSE, FALSE, 0, Cost(message, NoResult))
    /\ UNCHANGED stale

\* History after the input has been recorded (or skipped).
Recorded(message) ==
    IF shouldAddToHistory(message, currentFlow)
    THEN addMessageToHistory(history, senderType(message), message)
    ELSE history

Ordinary(message) ==
    message # RESET_CONVERSATION_TRIGGER /\ message # VIEW_TASKLIST_TRIGGER

\* No active flow and the onboarding trigger: a new interview on a cleared history.
HandleStartOnboarding(message) ==
    /\ Ordinary(message)
    /\ currentFlow = "none"
    /\ activeFlow(message, currentFlow) = "onboarding"
    /\ LET h == addMessageToHistory(ClearHistory(Recorded(message)), "system",
                                    <<"Starting onboarding interview.">>)
       IN \E output \in ModelCompletions(h) :
          \E now \in TaskClock(output), rnd \in TaskSuffixes(output),
             addThrows \in AddFailures(output) :
             Apply(message,
                   OnboardingCase(h, mockTaskDatabase, output, now, rnd, addThrows),
                   TRUE, IsOffPrompt(output), now,
                   Cost(message, output) + AddCost(addThrows))
    /\ stale' = Len(ClearHistory(Recorded(message)))

\* An interview is active: the input goes to the Interview Engine.
HandleOnboarding(message) ==
    /\ Ordinary(message)
    /\ currentFlow # "none"
    /\ activeFlow(message, currentFlow) = "onboarding"
    /\ LET h == Recorded(message)
       IN \E output \in ModelCompletions(h) :
          \E now \in TaskClock(output), rnd \in TaskSuffixes(output),
             addThrows \in AddFailures(output) :
             Apply(message,
                   OnboardingCase(h, mockTaskDatabase, output, now, rnd, addThrows),
                   FALSE, IsOffPrompt(output), now,
                   Cost(message, output) + AddCost(addThrows))
    /\ UNCHANGED stale

\* The placeholder flow (started by its trigger when no flow is active).
HandleCreateProduct(message) ==
    /\ Ordinary(message)
    /\ activeFlow(message, currentFlow) = "create_product"
    /\ LET h == IF currentFlow = "none"
               THEN addMessageToHistory(Recorded(message), "system",
                                        <<"Starting create product flow.">>)
               ELSE Recorded(message)
       IN Apply(message, CreateProductCase(h, mockTaskDatabase),
                FALSE, FALSE, 0, Cost(message, NoResult))
    /\ UNCHANGED stale

\* No active flow and no trigger: the default pipeline.
HandleDefault(message) ==
    /\ Ordinary(message)
    /\ activeFlow(message, currentFlow) = "none"
    /\ \E stage \in DefaultOutcomes, praiseOutput \in PraiseCompletions(message) :
          Apply(message,
                DefaultCase(Recorded(message), mockTaskDatabase, message, stage,
                            praiseOutput),
                FALSE, FALSE, 0,
                Cost(message, NoResult) + StageCost(message, stage, praiseOutput))
    /\ UNCHANGED stale

handleUserMessage(message) ==
    \/ HandleReset(message)
    \/ HandleViewTasks(message)
    \/ HandleStartOnboarding(message)
    \/ HandleOnboarding(message)
    \/ HandleCreateProduct(message)
    \/ HandleDefault(message)

Next == \E message \in Messages : handleUserMessage(message)

Spec == Init /\ [][Next]_vars

-----------------------------------------------------------------------------
(* createOnboardingTask on its own: every OnboardingData the type admits *)

MaxStore == 3
MaxStoreClock == 1

StoreClock == 0..MaxStoreClock

TaskInputs ==
    { OnboardingData(<<"Alice">>, <<"grow my business">>, c, s) :
          c \in ChannelChoices, s \in {"true", "false", "undefined"} }

CreateTaskCall == <<"createOnboardingTask">>

CreateTaskStep(onboardingData, now, rnd) ==
    /\ Len(mockTaskDatabase) < MaxStore
    /\ mockTaskDatabase' = createOnboardingTask(mockTaskDatabase, onboardingData, now, rnd)
    /\ call' = [NoCall EXCEPT
                    !.message = CreateTaskCall,
                    !.result = [NoResult EXCEPT !.onboardingData = onboardingData],
                    !.added = Len(mockTaskDatabase') - Len(mockTaskDatabase),
                    !.now = now]
    /\ UNCHANGED chatVars
    /\ UNCHANGED <<currentFlow, history, response, interviewAdds, interviewDone,
                   stale, offScript>>

NextTask == \E onboardingData \in TaskInputs, now \in StoreClock, rnd \in RandomSuffixes :
                CreateTaskStep(onboardingData, now, rnd)

SpecTask == Init /\ [][NextTask]_vars

-----------------------------------------------------------------------------
(* The task store on its own: add, list and update calls *)

MaxStoreTasks == 2

AddInputs ==
    { [description |-> CreateStripeTask, priority |-> "high", dueDate |-> <<DueDays>>],
      [description |-> ConnectStripeTask, priority |-> "medium", dueDate |-> <<>>] }

UpdateChoices ==
    { [description |-> <<>>, priority |-> <<>>, dueDate |-> NoDue,
       completed |-> <<TRUE>>],
      [description |-> <<>>, priority |-> <<"low">>, dueDate |-> NullDue,
       completed |-> <<>>],
      [description |-> << <<"Open a Stripe account today.">> >>, priority |-> <<>>,
       dueDate |-> [given |-> TRUE, isNull |-> FALSE, value |-> <<7>>],
       completed |-> <<FALSE>>] }

NoUpdates == [description |-> <<>>, priority |-> <<>>, dueDate |-> NoDue,
              completed |-> <<>>]

TaskIds == {mockTaskId(now, rnd) : now \in Clock, rnd \in RandomSuffixes}

\* The session state, which the store's own calls leave alone.
sessionVars == <<currentFlow, history, response, interviewAdds, interviewDone,
                 stale, offScript, isLoading, inflight>>

\* Record of the last call to the store.
StoreCall(op, input, taskId, updates, success, listed) ==
    [message |-> <<op>>, input |-> input, taskId |-> taskId, updates |-> updates,
     success |-> success, listed |-> listed]

StoreAdd(input, now, rnd) ==
    /\ Len(mockTaskDatabase) < MaxStoreTasks
    /\ mockTaskDatabase' = addTask(mockTaskDatabase, input, now, rnd)
    /\ call' = StoreCall("addTask", input, mockTaskId(now, rnd), NoUpdates, TRUE, <<>>)
    /\ UNCHANGED sessionVars

StoreList ==
    /\ mockTaskDatabase' = mockTaskDatabase
    /\ call' = StoreCall("getTasks", [description |-> <<>>, priority |-> "",
                                      dueDate |-> <<>>],
                         <<>>, NoUpdates, TRUE, getTasks(mockTaskDatabase))
    /\ UNCHANGED sessionVars

StoreUpdate(taskId, updates) ==
    LET r == updateTask(mockTaskDatabase, [taskId |-> taskId, updates |-> updates])
    IN /\ mockTaskDatabase' = r.db
       /\ call' = StoreCall("updateTask", [description |-> <<>>, priority |-> "",
                                           dueDate |-> <<>>],
                            taskId, updates, r.success, <<>>)
       /\ UNCHANGED sessionVars

\* The adds are made within one millisecond, the case in which only the
\* random suffix tells two ids apart.
NextStore ==
    \/ \E input \in AddInputs, rnd \in RandomSuffixes : StoreAdd(input, 0, rnd)
    \/ StoreList
    \/ \E taskId \in TaskIds, updates \in UpdateChoices : StoreUpdate(taskId, updates)

SpecStore == Init /\ [][NextStore]_vars

-----------------------------------------------------------------------------
(* The session and the task store together: handleUserMessage calls          *)
(* interleaved with direct add and update calls on the store.  A direct     *)
(* store call counts against the off-script budget, of which one unit is    *)
(* held back.                                                                *)

SessionBudget == MaxOffScript - 1

SessionHandle(message) ==
    \/ HandleReset(message) /\ offScript' <= SessionBudget
    \/ HandleViewTasks(message) /\ offScript' <= SessionBudget
    \/ HandleStartOnboarding(message) /\ offScript' <= SessionBudget
    \/ HandleOnboarding(message) /\ offScript' <= SessionBudget
    \/ HandleCreateProduct(message) /\ offScript' <= SessionBudget
    \/ HandleDefault(message) /\ offScript' <= SessionBudget

SessionAdd(input, now, rnd) ==
    /\ offScript < SessionBudget
    /\ mockTaskDatabase' = addTask(mockTaskDatabase, input, now, rnd)
    /\ call' = StoreCall("addTask", input, mockTaskId(now, rnd), NoUpdates, TRUE, <<>>)
    /\ offScript' = offScript + 1
    /\ UNCHANGED chatVars
    /\ UNCHANGED <<currentFlow, history, response, interviewAdds, interviewDone, stale>>

SessionUpdate(taskId, updates) ==
    LET r == updateTask(mockTaskDatabase, [taskId |-> taskId, updates |-> updates])
    IN /\ offScript < SessionBudget
       /\ mockTaskDatabase' = r.db
       /\ call' = StoreCall("updateTask", [description |-> <<>>, priority |-> "",
                                           dueDate |-> <<>>],
                            taskId, updates, r.success, <<>>)
       /\ offScript' = offScript + 1
       /\ UNCHANGED chatVars
       /\ UNCHANGED <<currentFlow, history, response, interviewAdds, interviewDone,
                      stale>>

NextSession ==
    \/ \E message \in Messages : SessionHandle(message)
    \/ \E input \in AddInputs, now \in Clock, rnd \in RandomSuffixes :
          SessionAdd(input, now, rnd)
    \/ \E taskId \in TaskIds, updates \in UpdateChoices : SessionUpdate(taskId, updates)

SpecSession == Init /\ [][NextSession]_vars

-----------------------------------------------------------------------------
(* The Interview Engine on its own: conductOnboardingInterview driven turn   *)
(* by turn over a history that grows the way the router grows it, for every  *)
(* sequence of answers, valid or not.                                        *)

MaxEngineAnswers == 5

EngineAnswers == {<<"Alice">>, <<"Email">>, <<"Yes">>, <<"No">>, <<"yes">>, <<"">>}

EngineCall == <<"conductOnboardingInterview">>

NumAnswers(h) == Len(SelectSeq(h, IsAnswerTurn))

\* One invocation on history h with raw model completion output; a question
\* in the result is recorded without its marker (part_006: the onboarding case).
EngineInvoke(h, output) ==
    LET result == conductOnboardingInterview(output)
    IN /\ history' = IF result.nextQuestion # <<>>
                     THEN addMessageToHistory(h, "ai", StripOptions(result.nextQuestion))
                     ELSE h
       /\ call' = [NoCall EXCEPT !.message = EngineCall,
                                 !.engineCalled = TRUE,
                                 !.engineIn = h,
                                 !.result = result,
                                 !.fault = IsOffPrompt(output),
                                 !.completion = output,
                                 !.pendingBefore = PendingQuestion(h),
                                 !.lenBefore = Len(history)]
       /\ UNCHANGED chatVars
       /\ UNCHANGED <<currentFlow, mockTaskDatabase, response, interviewAdds,
                      interviewDone, stale, offScript>>

\* The first invocation, on the start marker alone.
EngineStart ==
    /\ history = <<>>
    /\ \E output \in ModelCompletions(<<StartTurn>>) : EngineInvoke(<<StartTurn>>, output)

\* An answer is recorded and the engine invoked on the longer history.
EngineAnswer(answer) ==
    /\ history # <<>>
    /\ ~call.fault
    /\ ~call.result.isComplete
    /\ NumAnswers(history) < MaxEngineAnswers
    /\ LET h == addMessageToHistory(history, senderType(answer), answer)
       IN \E output \in ModelCompletions(h) : EngineInvoke(h, output)

\* The engine is invoked again on a completed history, with no turn added.
EngineReinvoke ==
    /\ history # <<>>
    /\ ~call.fault
    /\ call.result.isComplete
    /\ \E output \in ModelCompletions(history) : EngineInvoke(history, output)

\* The router's closing agent turn after a completed interview.
EngineClose ==
    /\ history # <<>>
    /\ ~call.fault
    /\ call.result.isComplete
    /\ IsAnswerTurn(history[Len(history)])
    /\ history' = addMessageToHistory(history, "ai",
                       CompletionMessage(call.result.onboardingData, <<>>))
    /\ UNCHANGED chatVars
    /\ UNCHANGED <<currentFlow, mockTaskDatabase, response, call, interviewAdds,
                   interviewDone, stale, offScript>>

NextEngine ==
    \/ EngineStart
    \/ \E answer \in EngineAnswers : EngineAnswer(answer)
    \/ EngineReinvoke
    \/ EngineClose

SpecEngine == Init /\ [][NextEngine]_vars

-----------------------------------------------------------------------------
(* The chat interface and the handleUserMessage calls it has in flight: a   *)
(* call runs to its first await when the request is sent and finishes when  *)
(* the awaited results arrive.                                              *)

MaxInFlight == 2

\* Variant: the interface sends whatever its loading state.
CanSend_Always(loading) == TRUE

\* sendMessage, handleActionClick and viewTaskList return at once while a
\* request is loading, and every button is disabled then.
CanSend(loading) == ~loading

\* A call in flight: its input, the activeFlow it determined, the history it
\* passed to the engine, and the response if it ran to its end without an await.
InFlight(message, flow, engineIn, done, resp) ==
    [message |-> message, flow |-> flow, engineIn |-> engineIn, done |-> done,
     resp |-> resp]

\* handleUserMessage up to its first await: the session state it leaves and
\* the call that is then in flight.
SyncPrefix(message) ==
    IF message = RESET_CONVERSATION_TRIGGER
    THEN [flow |-> resetConversationState.currentFlow,
          hist |-> resetConversationState.history,
          call |-> InFlight(message, "none", <<>>, TRUE, ResetResponse)]
    ELSE IF message = VIEW_TASKLIST_TRIGGER
    THEN [flow |-> currentFlow, hist |-> history,
          call |-> InFlight(message, "view_tasks", <<>>, FALSE, ResetResponse)]
    ELSE LET active == activeFlow(message, currentFlow)
             h == IF currentFlow = "none" /\ active = "onboarding"
                  THEN addMessageToHistory(ClearHistory(Recorded(message)), "system",
                                           <<"Starting onboarding interview.">>)
                  ELSE IF currentFlow = "none" /\ active = "create_product"
                  THEN addMessageToHistory(Recorded(message), "system",
                                           <<"Starting create product flow.">>)
                  ELSE Recorded(message)
             placeholder == CreateProductCase(h, mockTaskDatabase)
         IN IF active = "create_product"
            THEN [flow |-> placeholder.flow, hist |-> placeholder.hist,
                  call |-> InFlight(message, active, <<>>, TRUE, placeholder.resp)]
            ELSE [flow |-> IF active = "onboarding" THEN "onboarding" ELSE currentFlow,
                  hist |-> h,
                  call |-> InFlight(message, active, h, FALSE, ResetResponse)]

\* The interface sends a message: the loading state is set and the server
\* action runs to its first await.
ChatSend(message) ==
    LET cost == Cost(message, onboardingInterviewPrompt(history))
        prefix == SyncPrefix(message)
    IN /\ CanSend(isLoading)
       /\ Len(inflight) < MaxInFlight
       /\ offScript + cost <= SessionBudget
       /\ isLoading' = TRUE
       /\ currentFlow' = prefix.flow
       /\ history' = prefix.hist
       /\ inflight' = Append(inflight, prefix.call)
       /\ offScript' = offScript + cost
       /\ UNCHANGED <<mockTaskDatabase, response, call, interviewAdds,
                      interviewDone, stale>>

RemoveAt(s, i) == SubSeq(s, 1, i - 1) \o SubSeq(s, i + 1, Len(s))

\* Call i returns with outcome o: the response reaches the interface, which
\* leaves its loading state.
ChatReturned(i, o, fault, cost) ==
    /\ offScript + cost <= SessionBudget
    /\ currentFlow' = o.flow
    /\ history' = o.hist
    /\ mockTaskDatabase' = o.db
    /\ response' = o.resp
    /\ call' = [NoCall EXCEPT !.message = inflight[i].message,
                              !.engineCalled = o.engineCalled,
                              !.engineIn = o.engineIn,
                              !.result = o.result,
                              !.fault = fault,
                              !.added = Len(o.db) - Len(mockTaskDatabase),
                              !.stages = o.stages,
                              !.stage = o.stage,
                              !.threw = o.threw,
                              !.praiseOutput = o.praiseOutput,
                              !.completion = o.completion,
                              !.addFailed = o.addFailed]
    /\ inflight' = RemoveAt(inflight, i)
    /\ isLoading' = FALSE
    /\ offScript' = offScript + cost
    /\ UNCHANGED <<interviewAdds, interviewDone, stale>>

\* A reset or a placeholder call: nothing was awaited.
ChatReturnSync(i) ==
    /\ inflight[i].done
    /\ ChatReturned(i, Outcome(currentFlow, history, mockTaskDatabase, inflight[i].resp,
                               FALSE, <<>>, NoResult), FALSE, 0)

\* The awaited task list arrives.
ChatReturnViewTasks(i) ==
    /\ ~inflight[i].done
    /\ inflight[i].flow = "view_tasks"
    /\ LET taskListText == fetchAndFormatTasks(mockTaskDatabase)
       IN ChatReturned(i, Outcome(FlowAfterViewTasks(currentFlow),
                                  addMessageToHistory(history, "ai", taskListText),
                                  mockTaskDatabase, Reply(taskListText, <<>>),
                                  FALSE, <<>>, NoResult), FALSE, 0)

\* What the rest of the handler appends goes to the history of the session as
\* it then is, and currentFlow is assigned only where the handler ends a flow.
Resumed(o, appendedFrom, endsFlow) ==
    [o EXCEPT !.hist = history \o SubSeq(o.hist, appendedFrom + 1, Len(o.hist)),
              !.flow = IF endsFlow THEN "none" ELSE currentFlow]

\* The awaited engine result arrives.
ChatReturnOnboarding(i) ==
    /\ ~inflight[i].done
    /\ inflight[i].flow = "onboarding"
    /\ LET h == inflight[i].engineIn
       IN \E output \in ModelCompletions(h) :
          \E now \in TaskClock(output), rnd \in TaskSuffixes(output),
             addThrows \in AddFailures(output) :
             LET o == OnboardingCase(h, mockTaskDatabase, output, now, rnd, addThrows)
             IN ChatReturned(i, Resumed(o, Len(h), o.flow = "none"),
                             IsOffPrompt(output),
                             (IF IsOffPrompt(output) THEN 1 ELSE 0)
                                 + AddCost(addThrows))

\* The awaited stages of the default pipeline arrive.
ChatReturnDefault(i) ==
    /\ ~inflight[i].done
    /\ inflight[i].flow = "none"
    /\ \E stage \in DefaultOutcomes, praiseOutput \in PraiseCompletions(inflight[i].message) :
          LET o == DefaultCase(history, mockTaskDatabase, inflight[i].message, stage,
                               praiseOutput)
          IN ChatReturned(i, Resumed(o, Len(history), o.threw), FALSE,
                          StageCost(inflight[i].message, stage, praiseOutput))

NextChat ==
    \/ \E message \in Messages : ChatSend(message)
    \/ \E i \in DOMAIN inflight : ChatReturnSync(i)
    \/ \E i \in DOMAIN inflight : ChatReturnViewTasks(i)
    \/ \E i \in DOMAIN inflight : ChatReturnOnboarding(i)
    \/ \E i \in DOMAIN inflight : ChatReturnDefault(i)

SpecChat == Init /\ [][NextChat]_vars

-----------------------------------------------------------------------------
(* Claims *)

IntendedNote(data) ==
    IF data.hasStripe = "false" THEN CreateNote
    ELSE IF data.hasStripe = "true" THEN ConnectNote
    ELSE <<>>

LastTurn == history[Len(history)]

CompletedJustNow ==
    /\ call.engineCalled
    /\ call.result.isComplete
    /\ call.result.onboardingData.present
    /\ call.result.answeredStripe = "true"

\* C1: an interview that completes with valid answers causes exactly one
\* Task Store add in total.
C1_ExactlyOneAdd == interviewDone => interviewAdds = 1

\* C2: on the turn where the engine reports completion with the prerequisite
\* just answered, the response is the completion message embedding the answers
\* and the task note, with no actions; it is the last (agent) turn of history
\* and no flow is active.
C2_CompletionResponse ==
    CompletedJustNow =>
        /\ response = Reply(CompletionMessage(call.result.onboardingData,
                                              IntendedNote(call.result.onboardingData)),
                            <<>>)
        /\ LastTurn = Turn("ai", response.responseText)
        /\ currentFlow = "none"

Button(option) == [label |-> <<option>>, trigger |-> <<option>>]

\* What the user is shown for question k.
ExpectedReply(k) ==
    CASE k = 1 -> Reply(<<"What is your name?">>, <<>>)
      [] k = 2 -> Reply(<<"What is your goal for the 30 day free trial?">>, <<>>)
      [] k = 3 -> Reply(<<"What is your preferred channel of communication?">>,
                        <<Button("Chat"), Button("Email"), Button("Whatsapp")>>)
      [] k = 4 -> Reply(<<"Do you have a Stripe account?">>,
                        <<Button("Yes"), Button("No")>>)

AnsweredAs(k, message, result) ==
    IF ValidAnswer(k, message) /\ shouldAddToHistory(message, "onboarding")
    THEN IF k < 4
         THEN ~result.isComplete /\ result.nextQuestion = QuestionToAsk(k + 1)
         ELSE /\ result.isComplete
              /\ result.onboardingData.hasStripe = BoolText(message = <<"Yes">>)
    ELSE ~result.isComplete /\ result.nextQuestion = QuestionToAsk(k)

\* C5: the view-tasks token during an interview leaves the interview active,
\* and the next ordinary message goes to the Interview Engine as the answer to
\* the question that was pending before the view-tasks token.
C5_ViewTasksResumes ==
    [][ /\ (call'.message = VIEW_TASKLIST_TRIGGER /\ call'.flowBefore = "onboarding")
              => currentFlow' = "onboarding"
        /\ (/\ call.message = VIEW_TASKLIST_TRIGGER
            /\ call.flowBefore = "onboarding"
            /\ Ordinary(call'.message))
              => /\ call'.engineCalled
                 /\ call'.pendingBefore = call.pendingBefore
                 /\ call'.engineIn = Recorded(call'.message)
                 /\ ~call'.fault =>
                        AnsweredAs(call.pendingBefore, call'.message, call'.result)
      ]_vars

C5_Witness ==
    /\ currentFlow = "onboarding"
    /\ Len(history) >= 4
    /\ SubSeq(history, Len(history) - 3, Len(history))
          = << Turn("ai", <<"What is your preferred channel of communication?">>),
               Turn("ai", <<"You have no pending tasks.">>),
               Turn("action", <<"Email">>),
               Turn("ai", <<"Do you have a Stripe account?">>) >>

\* C6: from every session state the reset token leaves no active flow and an
\* empty history, and returns the greeting with the two top-level options.
C6_Reset ==
    call.message = RESET_CONVERSATION_TRIGGER =>
        /\ currentFlow = "none"
        /\ Len(history) = 0
        /\ response =
              Reply(<<"Conversation reset. Hello! What would you like to work on today?">>,
                    << [label |-> <<"Onboarding">>,
                        trigger |-> <<"START_ONBOARDING_INTERVIEW">>],
                       [label |-> <<"Create Product">>,
                        trigger |-> <<"START_CREATE_PRODUCT">>] >>)

C6_Witness ==
    /\ call.message = RESET_CONVERSATION_TRIGGER
    /\ call.flowBefore = "onboarding"
    /\ call.pendingBefore = 3
    /\ Len(mockTaskDatabase) = 1

QuestionTexts == {ExpectedReply(k).responseText : k \in 1..4}

\* C7: during an interview a start-trigger goes to the Interview Engine as an
\* answer; it neither starts the placeholder flow nor changes the active flow.
C7_ActiveFlowWins ==
    (/\ call.flowBefore = "onboarding"
     /\ call.message \in {ONBOARDING_TRIGGER, CREATE_PRODUCT_TRIGGER}) =>
        /\ call.engineCalled
        /\ call.message = ONBOARDING_TRIGGER =>
              call.engineIn[Len(call.engineIn)] = Turn("action", call.message)
        /\ currentFlow # "create_product"
        /\ response.responseText # CreateProductMsg
        /\ ~call.fault =>
              currentFlow = "onboarding" /\ response.responseText \in QuestionTexts

C7_Witness ==
    /\ call.flowBefore = "onboarding"
    /\ call.message = CREATE_PRODUCT_TRIGGER
    /\ ~call.fault
    /\ call.pendingBefore = 3
    /\ response = ExpectedReply(3)

\* C8: starting an interview clears history first: the engine sees only the
\* start marker on that turn, and on every later turn of the interview no turn
\* that predates the start.
C8_FreshHistory ==
    /\ (call.engineCalled /\ call.flowBefore = "none") => call.engineIn = <<StartTurn>>
    /\ call.engineCalled =>
          /\ stale = 0
          /\ call.engineIn[1] = StartTurn
          /\ \A i \in 2..Len(call.engineIn) : call.engineIn[i].sender # "system"
    /\ currentFlow = "onboarding" => (stale = 0 /\ history[1] = StartTurn)

C8_Witness ==
    /\ call.engineCalled
    /\ call.flowBefore = "none"
    /\ call.lenBefore >= 4
    /\ call.engineIn = <<StartTurn>>

HasMarker(text) ==
    \E i \in 1..Len(text) : text[i] \in {OPTIONS_OPEN, OPTIONS_OPEN_TIGHT}

\* The options a question names in its trailing marker, in order.
NamedOptions(q) ==
    IF StripStart(q) = 0 THEN <<>>
    ELSE SelectSeq(SubSeq(q, StripStart(q) + 1, Len(q) - 1), LAMBDA t : t # COMMA)

\* C9: a not-complete result with a question appends the question without its
\* options marker as an agent turn, returns that same marker-free text with one
\* action per option of the marker (none without a marker), and keeps the
\* interview active.
C9_NextQuestion ==
    (call.engineCalled /\ ~call.result.isComplete /\ call.result.nextQuestion # <<>>) =>
        /\ ~HasMarker(LastTurn.text)
        /\ LastTurn.sender = "ai"
        /\ LastTurn.text \o SubSeq(call.result.nextQuestion, Len(LastTurn.text) + 1,
                                   Len(call.result.nextQuestion))
              = call.result.nextQuestion
        /\ response.responseText = LastTurn.text
        /\ Len(response.actions) = Len(NamedOptions(call.result.nextQuestion))
        /\ \A i \in 1..Len(response.actions) :
              /\ response.actions[i].label = <<NamedOptions(call.result.nextQuestion)[i]>>
              /\ response.actions[i].trigger = <<NamedOptions(call.result.nextQuestion)[i]>>
        /\ Len(history) = Len(call.engineIn) + 1
        /\ currentFlow = "onboarding"

\* The same for the questions of QUESTIONS returned as the prompt writes them.
C9_PromptQuestions ==
    (/\ call.engineCalled /\ ~call.result.isComplete
     /\ call.result.nextQuestion # <<>> /\ ~call.fault) =>
        /\ \E k \in 1..4 :
              /\ call.result.nextQuestion = QuestionToAsk(k)
              /\ response = ExpectedReply(k)
        /\ ~HasMarker(response.responseText)
        /\ LastTurn = Turn("ai", response.responseText)
        /\ Len(history) = Len(call.engineIn) + 1
        /\ currentFlow = "onboarding"

C9_Witness ==
    /\ call.engineCalled
    /\ call.result.nextQuestion = QUESTIONS.channelWithOptions
    /\ Len(response.actions) = 3
    /\ LastTurn.text = QUESTIONS.channel

\* C10: an engine contract violation ends in a recovery message, no task and
\* no active flow, so the next ordinary message does not reach the engine.
C10_Recovery ==
    [][ /\ (call'.engineCalled /\ call'.completion \in FaultyCompletions) =>
              /\ response' \in {Reply(MissingDataMsg, <<>>), Reply(StuckMsg, <<>>)}
              /\ mockTaskDatabase' = mockTaskDatabase
              /\ currentFlow' = "none"
        /\ (/\ call.engineCalled
            /\ call.completion \in FaultyCompletions
            /\ Ordinary(call'.message)
            /\ call'.message \notin {ONBOARDING_TRIGGER, CREATE_PRODUCT_TRIGGER})
              => ~call'.engineCalled
      ]_vars

C10_Witness ==
    /\ call.engineCalled
    /\ call.completion \in FaultyCompletions
    /\ call.flowBefore = "onboarding"
    /\ call.pendingBefore = 4
    /\ call.message = <<"No">>
    /\ currentFlow = "none"

TwoTopLevelOptions ==
    << [label |-> <<"Onboarding">>, trigger |-> <<"START_ONBOARDING_INTERVIEW">>],
       [label |-> <<"Create Product">>, trigger |-> <<"START_CREATE_PRODUCT">>] >>

\* C11: a failure raised inside the handler's try block still gets a response:
\* the generic failure message, appended as an agent turn and returned with the
\* two top-level options, and no flow is active afterwards.
C11_TopLevelCatch ==
    call.threw =>
        /\ response.responseText[1]
              = "Sorry, I encountered an internal error while processing your request. Please try again later. (Details: "
        /\ response.responseText[Len(response.responseText)] = ")"
        /\ response.actions = TwoTopLevelOptions
        /\ LastTurn = Turn("ai", response.responseText)
        /\ currentFlow = "none"

C11_Witness ==
    /\ call.threw
    /\ call.flowBefore = "onboarding"
    /\ call.added = 1
    /\ currentFlow = "none"

C13_SpamShortCircuit ==
    [][ call'.stage = "spam" =>
            /\ call'.flowBefore = "none"
            /\ response' = Reply(<<"This message appears to be spam and has been discarded.">>,
                                 <<>>)
            /\ \A i \in 1..Len(call'.stages) : call'.stages[i] # "praise"
            /\ mockTaskDatabase' = mockTaskDatabase
            /\ currentFlow' = "none"
      ]_vars

C13_Witness ==
    /\ call.stage = "spam"
    /\ call.message = <<"Alice">>
    /\ LastTurn = Turn("ai", <<"This message appears to be spam and has been discarded.">>)

\* C14: a praise output without a string praisedMessage gets the specific
\* "couldn't process" message, with no actions and no active flow.
C14_InvalidTransform ==
    (/\ call.stage = "clean"
     /\ ~call.praiseOutput.isNull
     /\ ~call.praiseOutput.hasText) =>
        /\ response = Reply(<<"Sorry, the Praise Agent couldn't process the message correctly.">>,
                            <<>>)
        /\ currentFlow = "none"

FixedChoices ==
    { <<"START_ONBOARDING_INTERVIEW">>, <<"START_CREATE_PRODUCT">>,
      <<"Yes">>, <<"No">>, <<"Chat">>, <<"Email">>, <<"Whatsapp">> }

\* The call just made appended its input to the history it found.
InputAppended ==
    /\ Len(history') > Len(history)
    /\ SubSeq(history', 1, Len(history)) = history
    /\ IsAnswerTurn(history'[Len(history) + 1])

\* C15: an input appended to history is tagged action exactly when it equals a
\* start trigger or one of Yes, No, Chat, Email, Whatsapp, and user otherwise.
C15_SenderType ==
    [][ (Ordinary(call'.message) /\ InputAppended) =>
            LET turn == history'[Len(history) + 1]
            IN /\ turn.text = call'.message
               /\ turn.sender = "action" <=> call'.message \in FixedChoices
               /\ turn.sender = "user" <=> call'.message \notin FixedChoices
      ]_vars

C15_Witness ==
    /\ \E i \in 1..Len(history) : history[i] = Turn("user", <<"yes">>)
    /\ \E i \in 1..Len(history) : history[i] = Turn("action", <<"Yes">>)
    /\ \E i \in 1..Len(history) : history[i] = Turn("action", <<"START_ONBOARDING_INTERVIEW">>)

IsDescription(token) == token \in {CreateStripeTask[1], ConnectStripeTask[1]}

\* The task descriptions a task list text shows, in the order shown.
ListedDescriptions(text) == SelectSeq(text, IsDescription)

C18_AddThenList ==
    [][ /\ call'.message = <<"addTask">> =>
              LET listed == getTasks(mockTaskDatabase')
                  n == Len(mockTaskDatabase)
              IN /\ Len(listed) = n + 1
                 /\ SubSeq(listed, 1, n) = mockTaskDatabase
                 /\ listed[n + 1].description = call'.input.description
                 /\ listed[n + 1].priority = call'.input.priority
                 /\ listed[n + 1].dueDate = call'.input.dueDate
                 /\ listed[n + 1].completed = FALSE
                 /\ Len(listed[n + 1].id) > 0
                 /\ listed[n + 1].id = call'.taskId
        /\ call'.message = <<"getTasks">> =>
              call'.listed = mockTaskDatabase /\ mockTaskDatabase' = mockTaskDatabase
      ]_vars

C18_Witness ==
    /\ call.message = <<"getTasks">>
    /\ Len(call.listed) = 2
    /\ call.listed[1].completed
    /\ call.listed[2].priority = "high"
    /\ call.listed[2].dueDate = <<5>>

\* C19: an update whose id no stored task has reports no success and leaves
\* every stored task, and their order, as they were.
C19_UpdateUnknownId ==
    [][ (call'.message = <<"updateTask">> /\ call'.taskId \notin StoreIds(mockTaskDatabase))
            => /\ call'.success = FALSE
               /\ mockTaskDatabase' = mockTaskDatabase
      ]_vars

C19_Witness ==
    /\ call.message = <<"updateTask">>
    /\ call.success = FALSE
    /\ Len(mockTaskDatabase) = 2
    /\ call.taskId \notin StoreIds(mockTaskDatabase)

\* C20: no two stored tasks have the same id, and no add or update changes
\* the id of a task already stored.
C20_UniqueImmutableIds ==
    [][ /\ \A i, j \in 1..Len(mockTaskDatabase') :
              i # j => mockTaskDatabase'[i].id # mockTaskDatabase'[j].id
        /\ \A i \in 1..Len(mockTaskDatabase) :
              mockTaskDatabase'[i].id = mockTaskDatabase[i].id
      ]_vars

TaskIdsOf(tasks) == [i \in 1..Len(tasks) |-> tasks[i].id]

IsPrefix(s, t) == Len(s) <= Len(t) /\ SubSeq(t, 1, Len(s)) = s

\* C21: tasks are never deleted: whatever handleUserMessage input (the reset
\* token included) or store add or update is made, the ids a list returned
\* before it are a prefix of the ids a list returns after it.
C21_NeverDeleted ==
    [][ IsPrefix(TaskIdsOf(getTasks(mockTaskDatabase)),
                 TaskIdsOf(getTasks(mockTaskDatabase'))) ]_vars

C21_Witness ==
    /\ call.message = <<"updateTask">>
    /\ call.success
    /\ interviewAdds = 1
    /\ Len(mockTaskDatabase) = 1
    /\ mockTaskDatabase[1].completed

\* C22: an update whose id a stored task has reports success and changes, in
\* the first task with that id, exactly the fields supplied: a supplied
\* description, priority or completed takes the supplied value, a null due
\* date clears the due date, a due date value replaces it; the id, every
\* field not supplied and every other task stay as they were.
C22_UpdateKnownId ==
    [][ (call'.message = <<"updateTask">> /\ call'.taskId \in StoreIds(mockTaskDatabase))
            => LET u == call'.updates
                   i == CHOOSE k \in 1..Len(mockTaskDatabase) :
                            /\ mockTaskDatabase[k].id = call'.taskId
                            /\ \A j \in 1..(k - 1) : mockTaskDatabase[j].id # call'.taskId
                   old == mockTaskDatabase[i]
                   new == mockTaskDatabase'[i]
               IN /\ call'.success = TRUE
                  /\ Len(mockTaskDatabase') = Len(mockTaskDatabase)
                  /\ new.id = old.id
                  /\ new.description = IF u.description = <<>> THEN old.description
                                        ELSE u.description[1]
                  /\ new.priority = IF u.priority = <<>> THEN old.priority
                                     ELSE u.priority[1]
                  /\ new.completed = IF u.completed = <<>> THEN old.completed
                                      ELSE u.completed[1]
                  /\ new.dueDate = IF ~u.dueDate.given THEN old.dueDate
                                    ELSE IF u.dueDate.isNull THEN <<>>
                                    ELSE u.dueDate.value
                  /\ \A j \in 1..Len(mockTaskDatabase) :
                         j # i => mockTaskDatabase'[j] = mockTaskDatabase[j]
      ]_vars

C22_Witness ==
    /\ call.message = <<"updateTask">>
    /\ call.success
    /\ call.updates.dueDate = NullDue
    /\ Len(mockTaskDatabase) = 2
    /\ mockTaskDatabase[1].description = CreateStripeTask
    /\ mockTaskDatabase[1].dueDate = <<>>
    /\ mockTaskDatabase[1].priority = "low"
    /\ mockTaskDatabase[2].description = <<"Open a Stripe account today.">>
    /\ mockTaskDatabase[2].dueDate = <<7>>

\* History h is the start marker followed by the first n questions, each
\* with a valid answer right after it.
CleanRun(h, n) ==
    /\ Len(h) = 2 * n + 1
    /\ h[1] = StartTurn
    /\ \A k \in 1..n :
          /\ h[2 * k] = Turn("ai", ExpectedReply(k).responseText)
          /\ h[2 * k + 1].sender \in {"user", "action"}
          /\ k \in {1, 2} => h[2 * k + 1].text \notin {<<>>, <<"">>}
          /\ k = 3 => h[2 * k + 1].text \in {<<"Chat">>, <<"Email">>, <<"Whatsapp">>}
          /\ k = 4 => h[2 * k + 1].text \in {<<"Yes">>, <<"No">>}

\* C23: over a history grown by four valid answers, the engine is not complete
\* and reports the prerequisite not just answered on each of its first four
\* invocations, and on the fifth is complete with the four answers given and
\* the prerequisite just answered.
C23_FiveInvocations ==
    (call.message = EngineCall /\ ~call.fault) =>
        \A n \in 0..4 :
            CleanRun(call.engineIn, n) =>
                IF n < 4
                THEN /\ ~call.result.isComplete
                     /\ call.result.answeredStripe = "false"
                     /\ call.result.nextQuestion # <<>>
                ELSE /\ call.result.isComplete
                     /\ call.result.answeredStripe = "true"
                     /\ call.result.onboardingData.present
                     /\ call.result.onboardingData.name = call.engineIn[3].text
                     /\ call.result.onboardingData.goal = call.engineIn[5].text
                     /\ call.result.onboardingData.channel = call.engineIn[7].text
                     /\ call.result.onboardingData.hasStripe
                           = (IF call.engineIn[9].text = <<"Yes">> THEN "true" ELSE "false")

C23_Witness ==
    /\ call.message = EngineCall
    /\ ~call.fault
    /\ CleanRun(call.engineIn, 4)
    /\ call.result.isComplete
    /\ call.result.onboardingData.name = <<"Yes">>
    /\ call.result.onboardingData.goal = <<"Email">>
    /\ call.result.onboardingData.channel = <<"Email">>
    /\ call.result.onboardingData.hasStripe = "false"

\* The most recent turn pair of h is the prerequisite question asked by the
\* agent followed by a Yes or No answer.
LastPairIsPrerequisite(h) ==
    /\ Len(h) >= 2
    /\ h[Len(h) - 1] = Turn("ai", <<"Do you have a Stripe account?">>)
    /\ h[Len(h)].sender \in {"user", "action"}
    /\ h[Len(h)].text \in {<<"Yes">>, <<"No">>}

\* C24: the engine invoked again on the history its completing invocation
\* read, with no turn added, is complete with the prerequisite not just
\* answered; and the prerequisite is reported just answered exactly when the
\* most recent turn pair is the prerequisite question and a Yes or No answer.
C24_ReinvokeNoNewTurn ==
    [][ (call'.message = EngineCall /\ ~call'.fault) =>
            /\ (/\ call.message = EngineCall
                /\ ~call.fault
                /\ call.result.isComplete
                /\ call'.engineIn = call.engineIn)
                  => /\ call'.result.isComplete
                     /\ call'.result.answeredStripe = "false"
            /\ call'.result.answeredStripe = "true"
                  <=> LastPairIsPrerequisite(call'.engineIn)
      ]_vars

\* C24 (amended): the engine invoked again on a completed history that ends
\* with the router's closing agent turn is complete, with the same answers and
\* the prerequisite not just answered; in every invocation the prerequisite is
\* reported just answered exactly when the most recent turn pair is the
\* prerequisite question and a Yes or No answer.
C24_ReinvokeAfterClosingTurn ==
    [][ (call'.message = EngineCall /\ ~call'.fault) =>
            /\ (/\ call.message = EngineCall
                /\ ~call.fault
                /\ call.result.isComplete
                /\ Len(call'.engineIn) = Len(call.engineIn) + 1
                /\ SubSeq(call'.engineIn, 1, Len(call.engineIn)) = call.engineIn
                /\ call'.engineIn[Len(call'.engineIn)].sender = "ai")
                  => /\ call'.result.isComplete
                     /\ call'.result.answeredStripe = "false"
                     /\ call'.result.onboardingData = call.result.onboardingData
            /\ call'.result.answeredStripe = "true"
                  <=> LastPairIsPrerequisite(call'.engineIn)
      ]_vars

C24_Witness ==
    /\ call.message = EngineCall
    /\ ~call.fault
    /\ Len(call.engineIn) = 10
    /\ CleanRun(SubSeq(call.engineIn, 1, 9), 4)
    /\ call.engineIn[10].sender = "ai"
    /\ call.result.isComplete
    /\ call.result.answeredStripe = "false"
    /\ call.result.onboardingData.hasStripe = "true"

\* A completion that claims the interview complete without the answers: the
\* data is missing or holds no answer, or its channel is not one of the three.
MalformedCompletion(output) ==
    /\ ~output.isNull
    /\ output.isComplete
    /\ \/ ~output.onboardingData.present
       \/ /\ output.onboardingData.name = <<>>
          /\ output.onboardingData.goal = <<>>
          /\ output.onboardingData.channel = <<>>
       \/ output.onboardingData.channel \notin ChannelChoices

\* C25: a malformed completion is never returned by the engine as a normal
\* complete result; the router ends the interview with its recovery message,
\* creates no task and does not show the malformed answers.
C25_MalformedFailsLoudly ==
    (/\ call.message # <<>>
     /\ call.engineCalled
     /\ MalformedCompletion(call.completion))
        => /\ ~call.result.onboardingData.present
           /\ response = Reply(MissingDataMsg, <<>>)
           /\ call.added = 0
           /\ currentFlow = "none"

\* C27: history is append-only: a call that is neither a reset nor the start
\* of a fresh interview leaves the history it found as a prefix of the history
\* it leaves, and only a reset or an interview start removes turns.
C27_AppendOnly ==
    [][ LET reset == call'.message = RESET_CONVERSATION_TRIGGER
            start == call'.flowBefore = "none" /\ call'.message = ONBOARDING_TRIGGER
        IN /\ ~(reset \/ start) => IsPrefix(history, history')
           /\ (history # <<>> /\ history' = <<>>) => reset
      ]_vars

C27_Witness ==
    /\ call.message = <<"grow my business">>
    /\ call.flowBefore = "onboarding"
    /\ call.pendingBefore = 2
    /\ Len(history) = 6
    /\ history[1] = StartTurn
    /\ history[5] = Turn("user", <<"grow my business">>)
    /\ history[6] = Turn("ai", QUESTIONS.channel)

\* The question that was pending when the last turn of h was given as its answer.
PendingBeforeAnswer(h) ==
    IF Len(h) >= 2 /\ IsAnswerTurn(h[Len(h)])
    THEN PendingQuestion(SubSeq(h, 1, Len(h) - 1))
    ELSE 0

\* C29: an invalid answer never advances the interview: an answer to the
\* pending channel question other than Chat, Email or Whatsapp, or to the
\* pending prerequisite question other than Yes or No, is followed by the same
\* question with its options marker and isComplete = false, and the final
\* channel and prerequisite answers are texts that validly answered them.
C29_InvalidAnswerRepeats ==
    (call.message = EngineCall /\ ~call.fault) =>
        LET h == call.engineIn
            k == PendingBeforeAnswer(h)
            answer == h[Len(h)].text
        IN /\ (k = 3 /\ answer \notin ChannelChoices) =>
                 /\ ~call.result.isComplete
                 /\ call.result.nextQuestion = QUESTIONS.channelWithOptions
                 /\ LastTurn.text = QUESTIONS.channel
           /\ (k = 4 /\ answer \notin StripeChoices) =>
                 /\ ~call.result.isComplete
                 /\ call.result.nextQuestion = QUESTIONS.stripeWithOptions
                 /\ LastTurn.text = QUESTIONS.stripe
           /\ call.result.isComplete =>
                 /\ \E i \in 1..Len(h) :
                        /\ PendingBeforeAnswer(SubSeq(h, 1, i)) = 3
                        /\ h[i].text \in ChannelChoices
                        /\ call.result.onboardingData.channel = h[i].text
                 /\ \E j \in 1..Len(h) :
                        /\ PendingBeforeAnswer(SubSeq(h, 1, j)) = 4
                        /\ h[j].text \in StripeChoices
                        /\ call.result.onboardingData.hasStripe
                               = BoolText(h[j].text = <<"Yes">>)

\* An interview completed after an invalid answer to the channel question.
C29_Witness ==
    /\ call.message = EngineCall
    /\ ~call.fault
    /\ call.result.isComplete
    /\ call.result.onboardingData.channel = <<"Email">>
    /\ call.result.onboardingData.hasStripe = "false"
    /\ \E i \in 1..Len(call.engineIn) :
          /\ PendingBeforeAnswer(SubSeq(call.engineIn, 1, i)) = 3
          /\ call.engineIn[i].text = <<"yes">>

TaskNoteTexts == {CreateNote[1], ConnectNote[1]}

\* C30: when the add of the task store fails during task creation, the
\* response does not say that a task has been added, and the failure shows
\* to the user: the response is not the one the same turn gets when the add
\* succeeds.
C30_AddFailureShows ==
    (call.message # <<>> /\ call.addFailed) =>
        /\ \A i \in 1..Len(response.responseText) :
               response.responseText[i] \notin TaskNoteTexts
        /\ response # OnboardingCase(call.engineIn, mockTaskDatabase, call.completion,
                                     call.now, <<>>, FALSE).resp

C31_OnlyCompletionAdds ==
    [][ /\ mockTaskDatabase' # mockTaskDatabase =>
              /\ call'.engineCalled
              /\ call'.result.isComplete
              /\ call'.result.onboardingData.present
              /\ call'.result.answeredStripe = "true"
        /\ (call'.threw \/ call'.fault) => mockTaskDatabase' = mockTaskDatabase
      ]_vars

\* The first half of C31 alone: whatever changes the store is a completion that
\* reports the Stripe question as just answered.
C31_ChangeImpliesCompletion ==
    [][ mockTaskDatabase' # mockTaskDatabase =>
              /\ call'.engineCalled
              /\ call'.result.isComplete
              /\ call'.result.onboardingData.present
              /\ call'.result.answeredStripe = "true"
      ]_vars

\* C32: between calls the active flow is none or the interview: the
\* placeholder flow is set and cleared within one call, so no call starts
\* with it.
C32_FlowBetweenCalls ==
    /\ currentFlow \in {"none", "onboarding"}
    /\ call.flowBefore \in {"none", "onboarding"}

\* The placeholder flow has just been started and ended by one call.
C32_Witness ==
    /\ call.message = CREATE_PRODUCT_TRIGGER
    /\ call.flowBefore = "none"
    /\ currentFlow = "none"
    /\ Len(history) >= 2
    /\ history[Len(history) - 1] = Turn("system", <<"Starting create product flow.">>)
    /\ LastTurn = Turn("ai", CreateProductMsg)

\* C33: after every call other than a reset the last turn of the history is
\* an agent turn with the text of the response the call returned.
C33_LastTurnIsResponse ==
    (call.message # <<>> /\ call.message # RESET_CONVERSATION_TRIGGER) =>
        /\ history # <<>>
        /\ LastTurn = Turn("ai", response.responseText)

\* Number of agent turns of a history.
AgentTurns(h) == Len(SelectSeq(h, LAMBDA t : t.sender = "ai"))

\* C34: every call appends at most one agent turn to history: counted from the
\* history handed to the engine when the engine ran, from the cleared history
\* on a reset, and from the history before the call otherwise.
C34_OneAgentTurn ==
    [][ call'.message # <<>> =>
            IF call'.engineCalled
            THEN AgentTurns(history') <= AgentTurns(call'.engineIn) + 1
            ELSE IF call'.message = RESET_CONVERSATION_TRIGGER
            THEN AgentTurns(history') <= 1
            ELSE AgentTurns(history') <= AgentTurns(history) + 1
      ]_vars

\* The same for the calls whose engine run did not end in its fallback result.
C34_OneAgentTurnUnlessFallback ==
    [][ (call'.message # <<>> /\ ~(call'.engineCalled /\ call'.result.nextQuestion = EngineFallbackQuestion)) =>
            IF call'.engineCalled
            THEN AgentTurns(history') <= AgentTurns(call'.engineIn) + 1
            ELSE IF call'.message = RESET_CONVERSATION_TRIGGER
            THEN AgentTurns(history') <= 1
            ELSE AgentTurns(history') <= AgentTurns(history) + 1
      ]_vars

\* C35: when the input of a call is the trigger of an action the previous
\* response offered, the input counts as an action input: it is classified
\* action, no turn of history carries that text with another speaker, and the
\* engine of a running interview is handed it as its last turn with speaker
\* action.
C35_OfferedRecognised ==
    [][ \A i \in 1..Len(response.actions) :
            call'.message = response.actions[i].trigger =>
                /\ Recorded(call'.message) \in
                      {history, Append(history, Turn("action", call'.message))}
                /\ \A j \in 1..Len(history') :
                      history'[j].text = call'.message => history'[j].sender = "action"
                /\ (call'.engineCalled /\ call'.flowBefore = "onboarding") =>
                      call'.engineIn[Len(call'.engineIn)] = Turn("action", call'.message)
      ]_vars

C35_Witness ==
    /\ call.message = <<"Email">>
    /\ call.pendingBefore = 3
    /\ call.engineCalled
    /\ call.engineIn[Len(call.engineIn)] = Turn("action", <<"Email">>)
    /\ Len(history) >= 2
    /\ history[Len(history) - 1] = Turn("action", <<"Email">>)
    /\ response.actions = ParseActions(QUESTIONS.stripeWithOptions)

-----------------------------------------------------------------------------
(* The session under a user who answers: every call returns (a call is one   *)
(* step), and a valid answer to the pending question is eventually given.    *)
(* The calls are those of SessionHandle, with its off-script budget.         *)

\* The inputs that validly answer question k.
ValidAnswers(k) == {m \in Messages : Ordinary(m) /\ ValidAnswer(k, m)}

\* A step that is a call of the running interview whose input validly answers
\* the pending question k.
ValidAnswerCall(k) ==
    /\ currentFlow = "onboarding"
    /\ PendingQuestion(history) = k
    /\ call'.engineCalled
    /\ call'.message \in ValidAnswers(k)

\* While question k stays pending, a valid answer to it keeps being given.
AnswersGiven(k) ==
    \/ []<>~(currentFlow = "onboarding" /\ PendingQuestion(history) = k)
    \/ []<><<ValidAnswerCall(k)>>_vars

NextAnswering == \E message \in Messages : SessionHandle(message)

SpecAnswering ==
    /\ Init
    /\ [][NextAnswering]_vars
    /\ \A k \in 1..4 : AnswersGiven(k)

\* The pending question of h is one of the four and has been put to the user
\* after the answer to the question before it.
AskedPending(h) ==
    LET k == PendingQuestion(h)
        p == IF k \in 2..4 THEN AnswerIndices(h)[k - 1] ELSE 0
    IN /\ k \in 1..4
       /\ \E i \in (p + 1)..Len(h) : h[i] = Turn("ai", QuestionAsked(k))

AnswerAlwaysPossible ==
    \A k \in 1..4 :
        (currentFlow = "onboarding" /\ PendingQuestion(history) = k) =>
            \E message \in ValidAnswers(k) :
                /\ activeFlow(message, currentFlow) = "onboarding"
                /\ \E output \in ModelCompletions(Recorded(message)) :
                      offScript + Cost(message, output) <= SessionBudget

====
